---------------------------- MODULE Spec2Model ----------------------------
(***************************************************************************)
(* A model of collectd's rdtmon plugin (src/rdtmon.c): the core-list       *)
(* parser strlisttonums, the overlap classifier cgroup_cmp, and the        *)
(* config / init / read / shutdown callbacks acting on the global context  *)
(* g_rdtmon and on the PQoS provider.                                      *)
(*                                                                         *)
(* C strings are sequences of one-character strings.  The 64-bit parser    *)
(* values and the 32-bit stored core identifiers keep their modular        *)
(* arithmetic, at widths U64Bits and UIntBits.                             *)
(***************************************************************************)
EXTENDS Integers, Sequences, FiniteSets, TLC

(***************************************************************************)
(* Bounds of the model.                                                    *)
(***************************************************************************)
\* width of the parser's uint64_t values
U64Bits == 3
\* width of the stored `unsigned' core identifiers
UIntBits == 2
\* RDTMON_MAX_CORES, the table capacity and the per-group core capacity
RDTMON_MAX_CORES == 3
\* longest core-list expression enumerated exhaustively for the parser
MaxLen == 4
\* largest `max' handed to strlisttonums when it is checked on its own
MaxMax == 3
\* most options (children of <Plugin rdtmon> blocks) applied in one run
MaxOptions == 2
\* largest core identifier and longest core list handed to cgroup_cmp when
\* it is checked on its own
MaxCore == 2
MaxCores == 3

(***************************************************************************)
(* Program constants.                                                      *)
(***************************************************************************)
EINVAL == 22
ENOMEM == 12
DATA_MAX_NAME_LEN == 128

U64Mod == 2 ^ U64Bits
ULLONG_MAX == U64Mod - 1
UIntMod == 2 ^ UIntBits

(***************************************************************************)
(* Characters.                                                             *)
(***************************************************************************)
\* isspace() in the C locale
isspace(c) == c \in {" ", "\t", "\n", "\r", "\f"}

\* the value of a digit character, 99 for a character that is no digit
DigitVal(c) ==
  CASE c = "0" -> 0 [] c = "1" -> 1 [] c = "2" -> 2 [] c = "3" -> 3
    [] c = "4" -> 4 [] c = "5" -> 5 [] c = "6" -> 6 [] c = "7" -> 7
    [] c = "8" -> 8 [] c = "9" -> 9
    [] c \in {"a", "A"} -> 10 [] c \in {"b", "B"} -> 11
    [] c \in {"c", "C"} -> 12 [] c \in {"d", "D"} -> 13
    [] c \in {"e", "E"} -> 14 [] c \in {"f", "F"} -> 15
    [] OTHER -> 99

IsDigitIn(c, base) == DigitVal(c) < base

\* the part of s from index i on
Tail_(s, i) == SubSeq(s, i, Len(s))

(***************************************************************************)
(* strtoull(s, &endptr, 0) and strtouint64.                                *)
(***************************************************************************)
RECURSIVE SkipSpace(_, _)
\* the first index >= i of s that holds no white space (Len(s)+1 if none)
SkipSpace(s, i) ==
  IF i <= Len(s) /\ isspace(s[i]) THEN SkipSpace(s, i + 1) ELSE i

RECURSIVE DigitsEnd(_, _, _)
\* the index after the run of base-`base' digits that starts at i
DigitsEnd(s, i, base) ==
  IF i <= Len(s) /\ IsDigitIn(s[i], base) THEN DigitsEnd(s, i + 1, base) ELSE i

RECURSIVE DigitsValue(_, _, _, _, _)
\* the value of the digits s[i..e-1] in base `base', accumulated from acc
DigitsValue(s, i, e, base, acc) ==
  IF i >= e THEN acc
  ELSE DigitsValue(s, i + 1, e, base, acc * base + DigitVal(s[i]))

\* strtoull with base 0: the converted value and the index endptr points at
\* (Len(s)+1 is the terminating NUL).  White space and one sign are skipped;
\* "0x" before a hex digit selects base 16, a leading "0" base 8; a value
\* that does not fit is ULLONG_MAX; a "-" negates modulo 2^64; with no digit
\* nothing is converted and endptr is s itself.  The steps are chained
\* operators, each handing its result to the next.

\* the result for the digits' value v that end before index e
strtoull_value(neg, v, e) ==
  [val    |-> IF v > ULLONG_MAX THEN ULLONG_MAX
              ELSE IF neg THEN (U64Mod - v) % U64Mod ELSE v,
   endptr |-> e]

\* the digits s[i2..e-1]: none is "no conversion"
strtoull_digits(s, neg, i2, base, e) ==
  IF e = i2 THEN [val |-> 0, endptr |-> 1]
  ELSE strtoull_value(neg, DigitsValue(s, i2, e, base, 0), e)

\* the run of digits of the chosen base from i2 on
strtoull_run(s, neg, i2, base) ==
  strtoull_digits(s, neg, i2, base, DigitsEnd(s, i2, base))

\* the base: 16 after "0x" and a hex digit, 8 after "0", else 10
strtoull_base(s, neg, i1, hex) ==
  strtoull_run(s, neg, IF hex THEN i1 + 2 ELSE i1,
               IF hex THEN 16
               ELSE IF i1 <= Len(s) /\ s[i1] = "0" THEN 8 ELSE 10)

\* the optional prefix at i1, after the sign
strtoull_prefix(s, neg, i1) ==
  strtoull_base(s, neg, i1,
                /\ i1 + 2 <= Len(s)
                /\ s[i1] = "0"
                /\ s[i1 + 1] \in {"x", "X"}
                /\ IsDigitIn(s[i1 + 2], 16))

\* the optional sign at i0, after the white space
strtoull_sign(s, i0, sign) ==
  strtoull_prefix(s, sign /\ s[i0] = "-", IF sign THEN i0 + 1 ELSE i0)

\* the conversion from the first index i0 that holds no white space
strtoull_from(s, i0) ==
  strtoull_sign(s, i0, i0 <= Len(s) /\ s[i0] \in {"+", "-"})

strtoull(s) == strtoull_from(s, SkipSpace(s, 1))

\* what strtouint64 makes of strtoull's result r
strtouint64_check(s, r) ==
  IF Len(s) > 0 /\ r.endptr = Len(s) + 1
  THEN [ret |-> 0, n |-> r.val]
  ELSE [ret |-> 0 - EINVAL, n |-> r.val]

\* strtouint64: 0 and the number when s is not empty and was converted up
\* to its end, -EINVAL otherwise
strtouint64(s) == strtouint64_check(s, strtoull(s))

(***************************************************************************)
(* strlisttonums.                                                          *)
(***************************************************************************)
\* isdup: val is among the first `size' elements of nums
isdup(nums, size, val) == \E i \in 1..size : nums[i] = val

RECURSIVE IndexOf(_, _, _)
\* strchr: the first index >= i of s that holds c, 0 if there is none
IndexOf(s, c, i) ==
  IF i > Len(s) THEN 0
  ELSE IF s[i] = c THEN i ELSE IndexOf(s, c, i + 1)

RECURSIVE strtok_r(_)
\* the tokens of s, which does not start with ",", when its first "," is at
\* index c (0: it has none)
strtok_split(s, c) ==
  IF c = 0 THEN <<s>>
  ELSE <<SubSeq(s, 1, c - 1)>> \o strtok_r(Tail_(s, c + 1))

\* the tokens strtok_r(s, ",") returns one after the other: the maximal
\* runs of characters other than ",", none of them empty
strtok_r(s) ==
  IF s = <<>> THEN <<>>
  ELSE IF s[1] = "," THEN strtok_r(Tail(s))
  ELSE strtok_split(s, IndexOf(s, ",", 1))

\* nums with val stored behind it, unless isdup finds val in nums
StoreNum(nums, val) ==
  IF isdup(nums, Len(nums), val) THEN nums ELSE Append(nums, val)

RECURSIVE RangeLoop(_, _, _, _)
\* the range loop once n has been handled: return at once when max values
\* are stored, else go on with n1 = n + 1 while n1 <= end
RangeStep(nums1, n1, end, max) ==
  IF Len(nums1) >= max THEN [full |-> TRUE, nums |-> nums1]
  ELSE IF n1 <= end THEN RangeLoop(nums1, n1, end, max)
  ELSE [full |-> FALSE, nums |-> nums1]

\* for (n = start; n <= end; n++): store n unless it is a duplicate, return
\* at once when max values are stored.  n++ is modulo 2^64.
RangeLoop(nums, n, end, max) ==
  RangeStep(StoreNum(nums, n), (n + 1) % U64Mod, end, max)

\* the range's bounds, swapped when start > end
RangeBounds(start, end) ==
  IF start > end THEN [start |-> end, end |-> start]
  ELSE [start |-> start, end |-> end]

\* the range loop over the bounds b
RangeFrom(nums, b, max) == RangeLoop(nums, b.start, b.end, max)

\* "ret" to return the values stored, "cont" to go on with the next token
LoopResult(full, nums) ==
  [st |-> IF full THEN "ret" ELSE "cont", nums |-> nums]

\* the outcome of the range loop's result r
RangeResult(r) == LoopResult(r.full, r.nums)

\* a token that is a range whose two parts strtouint64 turned into s and e
ParseRange(s, e, nums, max) ==
  IF s.ret < 0 \/ e.ret < 0 THEN [st |-> "ret", nums |-> <<>>]
  ELSE RangeResult(RangeFrom(nums, RangeBounds(s.n, e.n), max))

\* the outcome once a single number is stored
SingleResult(nums1, max) == LoopResult(Len(nums1) >= max, nums1)

\* a variant of ParseSingle that skips a token that is no number
ParseSingle_skip(v, nums, max) ==
  IF v.ret < 0 THEN [st |-> "cont", nums |-> nums]
  ELSE SingleResult(StoreNum(nums, v.n), max)

\* a token that is a single number, which strtouint64 turned into v
ParseSingle(v, nums, max) ==
  IF v.ret < 0 THEN [st |-> "ret", nums |-> <<>>]
  ELSE SingleResult(StoreNum(nums, v.n), max)

\* the token without its leading white space, with its first "-" at index
\* p (0: it has none)
ParseStripped(token, p, nums, max) ==
  IF token = <<>> THEN [st |-> "cont", nums |-> nums]
  ELSE IF p # 0
  THEN ParseRange(strtouint64(SubSeq(token, 1, p - 1)),
                  strtouint64(Tail_(token, p + 1)), nums, max)
  ELSE ParseSingle(strtouint64(token), nums, max)

\* strchr(token, '-') on the token without its leading white space
ParseDash(token, nums, max) ==
  ParseStripped(token, IndexOf(token, "-", 1), nums, max)

\* one pass of the for (;;) body on a token: "cont" to go on with the
\* values stored so far, "ret" to return `count' elements
ParseToken(token0, nums, max) ==
  ParseDash(Tail_(token0, SkipSpace(token0, 1)), nums, max)

RECURSIVE TokenLoop(_, _, _)
\* the loop after the body's pass over the first of `tokens' gave r
TokenStep(tokens, r, max) ==
  IF r.st = "ret" THEN r.nums ELSE TokenLoop(Tail(tokens), r.nums, max)

\* the for (;;) loop over the tokens that are left
TokenLoop(tokens, nums, max) ==
  IF tokens = <<>> THEN nums
  ELSE TokenStep(tokens, ParseToken(Head(tokens), nums, max), max)

\* strlisttonums(s, nums, max): the elements placed into nums that the
\* returned count covers
strlisttonums(s, max) ==
  IF max = 0 THEN <<>> ELSE TokenLoop(strtok_r(s), <<>>, max)


(***************************************************************************)
(* The state.                                                              *)
(***************************************************************************)
VARIABLES
  g_rdtmon,     \* whether g_rdtmon points at a context (FALSE: NULL)
  cgroups,      \* g_rdtmon->cgroups[0 .. RDTMON_MAX_CORES-1]
  pgroups,      \* g_rdtmon->pgroups[0 .. RDTMON_MAX_CORES-1]
  num_groups,   \* g_rdtmon->num_groups
  heap,         \* the live malloc blocks: address -> [kind, val]
  double_free,  \* free() was handed an address that is not a live block
  aborted,      \* the process was ended by a failed assert or a fault
  pqos_up,      \* the PQoS library is initialised
  started,      \* the contexts the provider has bound (pqos_mon_start OK)
  lcores,       \* pqos_cpu->cores[i].lcore, the platform topology
  cap_events,   \* the event kinds cap_mon advertises
  calls,        \* the provider requests the last callback made, in order
  emitted,      \* the records the last read dispatched, in order
  last,         \* the last callback: its name, its return value, whether an
                \* allocation of it failed (nomem), whether it logged the
                \* warning "Too many core groups configured" (warned),
                \* whether it wrote past the table (overrun)
  hist,         \* what has happened to the context since it was created:
                \* the last block applied (ci) and how it ended (cfg), whether
                \* the last init succeeded (init_ok), whether a Cores option
                \* was applied at all (cores_seen), the contexts whose start
                \* succeeded (bound)
  noptions,     \* options applied so far in this run
  call          \* the call of a function that is checked on its own

vars == <<g_rdtmon, cgroups, pgroups, num_groups, heap, double_free, aborted,
          pqos_up, started, lcores, cap_events, calls, emitted, last, hist,
          noptions, call>>

progvars == <<g_rdtmon, cgroups, pgroups, num_groups, heap, double_free,
              aborted, pqos_up, started, lcores, cap_events, calls, emitted,
              last, hist, noptions>>

NULL == 0

Slots == 0 .. (RDTMON_MAX_CORES - 1)

\* a zero-initialised rdtmon_core_group_t
ZeroGroup == [desc |-> NULL, num_cores |-> 0, cores |-> NULL, events |-> {}]

\* the table after memset(g_rdtmon, 0, sizeof(rdtmon_ctx_t))
ZeroCgroups == [i \in Slots |-> ZeroGroup]
ZeroPgroups == [i \in Slots |-> NULL]

PQOS_PERF_EVENT_LLC_MISS == "LLC_MISS"
PQOS_PERF_EVENT_IPC == "IPC"
PQOS_MON_EVENT_L3_OCCUP == "L3_OCCUP"
PQOS_MON_EVENT_LMEM_BW == "LMEM_BW"
PQOS_MON_EVENT_TMEM_BW == "TMEM_BW"
PQOS_MON_EVENT_RMEM_BW == "RMEM_BW"

(***************************************************************************)
(* The heap: malloc, strdup, free.  A callback runs on a record m of the   *)
(* program state; m.failAt is the number of the allocation of this call    *)
(* that fails (0: none does), m.nalloc counts the allocations made.        *)
(* Every operator on m first fixes the values of its arguments (Value).    *)
(***************************************************************************)
\* the one element of a singleton set
Value(S) == CHOOSE v \in S : TRUE

\* the lowest address that holds no live block
NewAddr(h) ==
  CHOOSE a \in 1 .. (Cardinality(DOMAIN h) + 1) :
    a \notin DOMAIN h /\ \A b \in 1 .. (a - 1) : b \in DOMAIN h

\* malloc of a block: m.p is the address, or NULL when this allocation fails
malloc(m_, blk) ==
  Value({ LET k == m.nalloc + 1
              a == NewAddr(m.heap)
          IN  IF k = m.failAt THEN [m EXCEPT !.nalloc = k, !.p = NULL]
              ELSE [m EXCEPT !.nalloc = k, !.p = a,
                             !.heap = [x \in DOMAIN m.heap \cup {a} |->
                                         IF x = a THEN blk ELSE m.heap[x]]]
          : m \in {m_} })

\* free(p): nothing for NULL, the block is released, or a double free
free(m_, p_) ==
  Value({ IF p = NULL THEN m
          ELSE IF p \in DOMAIN m.heap
          THEN [m EXCEPT !.heap = [x \in DOMAIN m.heap \ {p} |-> m.heap[x]]]
          ELSE [m EXCEPT !.double_free = TRUE]
          : m \in {m_}, p \in {p_} })

\* sstrncpy(dst, s, n): the first n-1 characters of s
sstrncpy(s, n) == IF Len(s) > n - 1 THEN SubSeq(s, 1, n - 1) ELSE s

RECURSIVE Decimal(_)
\* the characters "%d" prints for n >= 0
Decimal(n) ==
  LET d == <<"0", "1", "2", "3", "4", "5", "6", "7", "8", "9">>
  IN  IF n < 10 THEN <<d[n + 1]>> ELSE Decimal(n \div 10) \o <<d[(n % 10) + 1]>>

(***************************************************************************)
(* cgroup_cmp and cgroup_set.                                              *)
(***************************************************************************)
\* a variant of cgroup_cmp that takes a partial overlap for no overlap
cgroup_cmp_same_only(cg_a, cg_b) ==
  LET sz_a  == cg_a.num_cores
      sz_b  == cg_b.num_cores
      found == Cardinality({ij \in (1 .. sz_a) \X (1 .. sz_b) :
                              cg_a.cores[ij[1]] = cg_b.cores[ij[2]]})
  IN  IF sz_a = sz_b /\ sz_b = found THEN 1 ELSE 0

\* a variant of cgroup_cmp that leaves out the test sz_a == sz_b
cgroup_cmp_no_size(cg_a, cg_b) ==
  LET sz_b  == cg_b.num_cores
      found == Cardinality({ij \in (1 .. cg_a.num_cores) \X (1 .. sz_b) :
                              cg_a.cores[ij[1]] = cg_b.cores[ij[2]]})
  IN  IF found = 0 THEN 0
      ELSE IF sz_b = found THEN 1
      ELSE 0 - 1

\* cgroup_cmp on two groups given by their num_cores and cores: found
\* counts the pairs (i, j) with tab_a[i] == tab_b[j]
cgroup_cmp(cg_a, cg_b) ==
  LET sz_a  == cg_a.num_cores
      sz_b  == cg_b.num_cores
      found == Cardinality({ij \in (1 .. sz_a) \X (1 .. sz_b) :
                              cg_a.cores[ij[1]] = cg_b.cores[ij[2]]})
  IN  IF found = 0 THEN 0
      ELSE IF sz_a = sz_b /\ sz_b = found THEN 1
      ELSE 0 - 1

\* the group of slot i with its core array read from the heap
GroupAt(m, i) ==
  [num_cores |-> m.cgroups[i].num_cores,
   cores     |-> IF m.cgroups[i].cores = NULL THEN <<>>
                 ELSE m.heap[m.cgroups[i].cores].val]

\* cgroup_set(&cgroups[i], desc, cores, num_cores); assert(desc != NULL)
\* ends the process.  The cores are stored as (unsigned)cores[k].  For i
\* outside the table the store to cg->cores is a write past cgroups[], which
\* is undefined: the run is followed no further (overrun).
cgroup_set(m_, i, desc_, cores, num_cores) ==
  Value({ IF desc = NULL THEN [m EXCEPT !.aborted = TRUE]
          ELSE IF i \notin Slots
          THEN [m1 EXCEPT !.aborted = TRUE, !.overrun = TRUE]
          ELSE IF m1.p = NULL
          THEN [m1 EXCEPT !.cgroups[i].cores = NULL, !.ret = 0 - ENOMEM]
          ELSE [m1 EXCEPT !.cgroups[i].cores = m1.p,
                          !.cgroups[i].num_cores = num_cores,
                          !.cgroups[i].desc = desc,
                          !.ret = 0]
          : m \in {m_}, desc \in {desc_},
            m1 \in {malloc(m_, [kind |-> "cores",
                                val  |-> [k \in 1 .. num_cores |->
                                            cores[k] % UIntMod]])} })

(***************************************************************************)
(* oconfig_to_cgroups.                                                     *)
(***************************************************************************)
\* one pass of the loop on a value that is not empty, for group `index':
\* parse, strdup, cgroup_set; m.ret < 0 is the error to return
oconfig_value(m_, string, index) ==
  Value({ LET n  == Len(cores)
              m1 == malloc(m, [kind |-> "desc", val |-> string])
          IN  IF n = 0 THEN [m EXCEPT !.ret = 0 - EINVAL]
              ELSE Value({ IF m2.aborted THEN m2
                           ELSE IF m2.ret < 0
                           THEN [free(m2, desc) EXCEPT !.ret = m2.ret]
                           ELSE m2
                           : desc \in {m1.p},
                             m2 \in {cgroup_set(m1, index, m1.p, cores, n)} })
          : m \in {m_},
            cores \in {strlisttonums(sstrncpy(string, DATA_MAX_NAME_LEN),
                                     RDTMON_MAX_CORES)} })

\* a variant of IsEmptyValue that also skips a value of white space only
IsEmptyValue_blank(v) == \A k \in 1 .. Len(v.string) : isspace(v.string[k])

\* the value is skipped: !(string != NULL && strlen(string))
IsEmptyValue(v) == Len(v.string) = 0

RECURSIVE oconfig_loop_strict(_, _, _, _, _)
\* a variant of oconfig_loop that takes values past the max-th group for an
\* error
oconfig_loop_strict(m_, values, j, index, max) ==
  Value({ IF j > Len(values) THEN [m EXCEPT !.ret = index]
          ELSE IF IsEmptyValue(values[j])
          THEN oconfig_loop_strict(m, values, j + 1, index, max)
          ELSE IF index >= max THEN [m EXCEPT !.ret = 0 - EINVAL]
          ELSE Value({ IF m2.aborted \/ m2.ret < 0 THEN m2
                       ELSE oconfig_loop_strict(m2, values, j + 1, index + 1,
                                                max)
                       : m2 \in {oconfig_value(m, values[j].string, index)} })
          : m \in {m_} })

RECURSIVE oconfig_loop(_, _, _, _, _)
\* the loop over item->values from value j on, `index' groups being set;
\* with the max-th group the warning is logged and the loop ends
oconfig_loop(m_, values, j, index, max) ==
  Value({ IF j > Len(values) THEN [m EXCEPT !.ret = index]
          ELSE IF IsEmptyValue(values[j])
          THEN oconfig_loop(m, values, j + 1, index, max)
          ELSE Value({ IF m2.aborted \/ m2.ret < 0 THEN m2
                       ELSE IF index + 1 >= max
                       THEN [m2 EXCEPT !.ret = index + 1, !.warned = TRUE]
                       ELSE oconfig_loop(m2, values, j + 1, index + 1, max)
                       : m2 \in {oconfig_value(m, values[j].string, index)} })
          : m \in {m_} })

\* oconfig_to_cgroups(item, g_rdtmon->cgroups, max): m.ret is the number of
\* groups set up, or a negative error value
oconfig_to_cgroups(m, item, max) == oconfig_loop(m, item.values, 1, 0, max)

(***************************************************************************)
(* rdtmon_free_cgroups and rdtmon_default_cgroups.                         *)
(***************************************************************************)
\* one pass of the loop of rdtmon_free_cgroups, on slot i (sfree frees and
\* sets the pointer to NULL)
free_slot(m_, i) ==
  Value({ IF m2.pgroups[i] # NULL
          THEN [free(m2, m2.pgroups[i]) EXCEPT !.pgroups[i] = NULL]
          ELSE m2
          : m2 \in { IF m1.cgroups[i].cores # NULL
                     THEN [free(m1, m1.cgroups[i].cores)
                             EXCEPT !.cgroups[i].cores = NULL,
                                    !.cgroups[i].num_cores = 0]
                     ELSE m1
                     : m1 \in { IF m.cgroups[i].desc # NULL
                                THEN [free(m, m.cgroups[i].desc)
                                        EXCEPT !.cgroups[i].desc = NULL]
                                ELSE m
                                : m \in {m_} } } })

RECURSIVE free_loop(_, _)
free_loop(m_, i) ==
  Value({ IF i >= RDTMON_MAX_CORES THEN m ELSE free_loop(free_slot(m, i), i + 1)
          : m \in {m_} })

rdtmon_free_cgroups(m) == free_loop(m, 0)

\* a variant of DefaultDesc that prints the core index
DefaultDesc_index(i) == Decimal(i)

\* ssnprintf_alloc("%d", g_rdtmon->pqos_cpu->cores[i].lcore)
DefaultDesc(i) == Decimal(lcores[i + 1])

\* one pass of the loop of rdtmon_default_cgroups, for core index i: the
\* description is the lcore in decimal, the one core of the group is i
default_group(m_, i) ==
  Value({ IF m1.p = NULL THEN [m1 EXCEPT !.ret = 0 - ENOMEM]
          ELSE Value({ IF m2.aborted THEN m2
                       ELSE IF m2.ret < 0
                       THEN [free(m2, m1.p) EXCEPT !.ret = m2.ret]
                       ELSE m2
                       : m2 \in {cgroup_set(m1, i, m1.p, <<i>>, 1)} })
          : m1 \in {malloc(m_, [kind |-> "desc", val |-> DefaultDesc(i)])} })

RECURSIVE default_loop(_, _)
\* the loop of rdtmon_default_cgroups from core index i on
default_loop(m_, i) ==
  Value({ IF i >= Len(lcores) THEN [m EXCEPT !.ret = Len(lcores)]
          ELSE Value({ IF m2.aborted \/ m2.ret < 0 THEN m2
                       ELSE default_loop(m2, i + 1)
                       : m2 \in {default_group(m, i)} })
          : m \in {m_} })

rdtmon_default_cgroups(m) == default_loop(m, 0)

(***************************************************************************)
(* rdtmon_config_cgroups.                                                  *)
(***************************************************************************)
\* a variant of AvailableEvents that keeps every advertised event
AvailableEvents_all == cap_events

\* the events of the platform without PQOS_PERF_EVENT_LLC_MISS
AvailableEvents == cap_events \ {PQOS_PERF_EVENT_LLC_MISS}

\* whether group i matches or overlaps one of the groups before it
OverlapsEarlier(m, i) ==
  \E j \in 0 .. (i - 1) : cgroup_cmp(GroupAt(m, j), GroupAt(m, i)) # 0

RECURSIVE validate_loop(_, _, _)
\* the loop over the n groups from group i on: compare with every earlier
\* group, set the events, allocate the monitoring data
validate_loop(m_, i, n_) ==
  Value({ IF i >= n THEN [m EXCEPT !.ret = 0]
          ELSE IF OverlapsEarlier(m, i)
          THEN [rdtmon_free_cgroups(m) EXCEPT !.ret = 0 - EINVAL]
          ELSE Value({ IF m1.p = NULL
                       THEN [rdtmon_free_cgroups(
                               [m1 EXCEPT !.pgroups[i] = NULL])
                             EXCEPT !.ret = 0 - ENOMEM]
                       ELSE validate_loop([m1 EXCEPT !.pgroups[i] = m1.p],
                                          i + 1, n)
                       : m1 \in {malloc([m EXCEPT !.cgroups[i].events =
                                                    AvailableEvents],
                                        [kind |-> "ctx", val |-> <<>>])} })
          : m \in {m_}, n \in {n_} })

\* rdtmon_config_cgroups(item)
rdtmon_config_cgroups(m_, item) ==
  Value({ IF \E j \in 1 .. Len(item.values) : item.values[j].type # "string"
          THEN [m EXCEPT !.ret = 0 - EINVAL]
          ELSE
            Value({ IF m1.aborted THEN m1
                    ELSE IF m1.ret < 0
                    THEN [rdtmon_free_cgroups(m1) EXCEPT !.ret = 0 - EINVAL]
                    ELSE
                      Value({ IF m2.aborted THEN m2
                              ELSE IF m2.ret < 0
                              THEN [rdtmon_free_cgroups(m2)
                                      EXCEPT !.ret = m2.ret]
                              ELSE validate_loop(
                                     [m2 EXCEPT !.num_groups = m2.ret],
                                     0, m2.ret)
                              : m2 \in { IF m1.ret = 0
                                         THEN rdtmon_default_cgroups(m1)
                                         ELSE m1 } })
                    : m1 \in {oconfig_to_cgroups(m, item,
                                                 RDTMON_MAX_CORES)} })
          : m \in {m_} })

(***************************************************************************)
(* rdtmon_preinit and rdtmon_config.                                       *)
(***************************************************************************)
\* what the environment does to an rdtmon_preinit that has work to do
PreOutcomes == {"ok", "enomem", "init_fail", "cap_fail", "no_mon"}

\* pqos_fini(): the library is down and holds no binding
pqos_fini(m) == [m EXCEPT !.pqos_up = FALSE, !.started = {}]

\* rdtmon_preinit(); `pre' is the outcome of its malloc and of the PQoS calls
rdtmon_preinit(m_, pre) ==
  Value({ LET m1 == pqos_fini([m EXCEPT !.g_rdtmon = TRUE,
                                        !.cgroups = ZeroCgroups,
                                        !.pgroups = ZeroPgroups,
                                        !.num_groups = 0])
              gone == [m1 EXCEPT !.g_rdtmon = FALSE, !.ret = 0 - 1]
          IN  IF m.g_rdtmon THEN [m EXCEPT !.ret = 0]
              ELSE IF pre = "enomem" THEN [m EXCEPT !.ret = 0 - ENOMEM]
              ELSE IF pre = "init_fail" THEN gone
              ELSE IF pre \in {"cap_fail", "no_mon"} THEN pqos_fini(gone)
              ELSE [m1 EXCEPT !.pqos_up = TRUE, !.ret = 0]
          : m \in {m_} })

\* strcasecmp("Cores", key) == 0
IsCoresKey(key) == key \in {"Cores", "cores", "CORES"}

RECURSIVE children_loop(_, _, _)
\* the loop of rdtmon_config over ci->children from child i on
children_loop(m_, ci, i) ==
  Value({ IF i > Len(ci) THEN [m EXCEPT !.ret = 0]
          ELSE IF IsCoresKey(ci[i].key)
          THEN Value({ IF m1.aborted \/ m1.ret # 0 THEN m1
                       ELSE children_loop(m1, ci, i + 1)
                       : m1 \in {rdtmon_config_cgroups(m, ci[i])} })
          ELSE children_loop(m, ci, i + 1)
          : m \in {m_} })

\* rdtmon_config(ci)
rdtmon_config(m, ci, pre) ==
  Value({ IF m1.ret # 0 THEN m1 ELSE children_loop(m1, ci, 1)
          : m1 \in {rdtmon_preinit(m, pre)} })

(***************************************************************************)
(* rdtmon_init, rdtmon_read, rdtmon_shutdown.                              *)
(***************************************************************************)
\* the request pqos_mon_start receives for slot i
StartRequest(m, i) ==
  [op |-> "start", slot |-> i, ctx |-> m.pgroups[i],
   num_cores |-> m.cgroups[i].num_cores, cores |-> m.cgroups[i].cores,
   events |-> m.cgroups[i].events]

\* pqos_mon_start refuses a request without cores or without a context
StartRefused(req) == req.ctx = NULL \/ req.cores = NULL \/ req.num_cores = 0

\* what holds of the context at address c when a request names it: whether
\* it is an allocated block, whether the provider holds a binding for it
CtxState(m, c) ==
  [allocated |-> c # NULL /\ c \in DOMAIN m.heap, bound |-> c \in m.started]

\* the request pqos_mon_poll receives: &pgroups[0] and num_groups
PollRequest(m) ==
  [op |-> "poll", num_groups |-> m.num_groups,
   ctxs |-> [k \in 1 .. m.num_groups |-> m.pgroups[k - 1]],
   states |-> [k \in 1 .. m.num_groups |-> CtxState(m, m.pgroups[k - 1])]]

\* the request pqos_mon_stop receives for slot i
StopRequest(m, i) ==
  [op |-> "stop", slot |-> i, ctx |-> m.pgroups[i],
   state |-> CtxState(m, m.pgroups[i])]

\* a provider request with the provider's answer to it
Answered(req, ok) ==
  [f \in DOMAIN req \cup {"ok"} |-> IF f = "ok" THEN ok ELSE req[f]]

RECURSIVE start_loop_all(_, _, _)
\* a variant of start_loop that goes on to the next group after a failed
\* start
start_loop_all(m_, i, failSlot) ==
  Value({ IF i >= m.num_groups THEN m
          ELSE
            LET req == StartRequest(m, i)
                ok  == ~(StartRefused(req) \/ i = failSlot)
                m1  == [m EXCEPT !.calls = Append(@, Answered(req, ok))]
            IN  IF ~ok
                THEN start_loop_all([m1 EXCEPT !.ret = 0 - 1], i + 1, failSlot)
                ELSE start_loop_all([m1 EXCEPT !.started = @ \cup {req.ctx}],
                                    i + 1, failSlot)
          : m \in {m_} })

RECURSIVE start_loop(_, _, _)
\* the loop of rdtmon_init from group i on; the provider fails the start of
\* group failSlot (-1: of none)
start_loop(m_, i, failSlot) ==
  Value({ IF i >= m.num_groups THEN [m EXCEPT !.ret = 0]
          ELSE
            LET req == StartRequest(m, i)
                ok  == ~(StartRefused(req) \/ i = failSlot)
                m1  == [m EXCEPT !.calls = Append(@, Answered(req, ok))]
            IN  IF ~ok
                THEN [m1 EXCEPT !.ret = 0 - 1]
                ELSE start_loop([m1 EXCEPT !.started = @ \cup {req.ctx}],
                                i + 1, failSlot)
          : m \in {m_} })

\* rdtmon_init()
rdtmon_init(m, pre, failSlot) ==
  Value({ IF m1.ret # 0 THEN m1 ELSE start_loop(m1, 0, failSlot)
          : m1 \in {rdtmon_preinit(m, pre)} })

\* the instance tag "[%s]" of a description
Instance(desc) == <<"[">> \o desc \o <<"]">>

\* a variant of GroupRecords that submits the mbm record before the ipc one
GroupRecords_mbm_first(m, i) ==
  LET ev   == m.cgroups[i].events
      desc == IF m.cgroups[i].desc = NULL THEN <<>>
              ELSE m.heap[m.cgroups[i].desc].val
      mbm  == {PQOS_MON_EVENT_LMEM_BW, PQOS_MON_EVENT_TMEM_BW,
               PQOS_MON_EVENT_RMEM_BW}
      rec(type, n) == [type |-> type, instance |-> <<"[">> \o desc \o <<"]">>,
                       slot |-> i, nvalues |-> n]
  IN  (IF PQOS_MON_EVENT_L3_OCCUP \in ev THEN <<rec("llc", 1)>> ELSE <<>>)
      \o (IF ev \cap mbm # {} THEN <<rec("mbm", 6)>> ELSE <<>>)
      \o (IF PQOS_PERF_EVENT_IPC \in ev THEN <<rec("ipc", 1)>> ELSE <<>>)

\* the records rdtmon_read submits for group i, in order
GroupRecords(m, i) ==
  LET ev   == m.cgroups[i].events
      desc == IF m.cgroups[i].desc = NULL THEN <<>>
              ELSE m.heap[m.cgroups[i].desc].val
      mbm  == {PQOS_MON_EVENT_LMEM_BW, PQOS_MON_EVENT_TMEM_BW,
               PQOS_MON_EVENT_RMEM_BW}
      rec(type, n) == [type |-> type, instance |-> Instance(desc),
                       slot |-> i, nvalues |-> n]
  IN  (IF PQOS_MON_EVENT_L3_OCCUP \in ev THEN <<rec("llc", 1)>> ELSE <<>>)
      \o (IF PQOS_PERF_EVENT_IPC \in ev THEN <<rec("ipc", 1)>> ELSE <<>>)
      \o (IF ev \cap mbm # {} THEN <<rec("mbm", 6)>> ELSE <<>>)

RECURSIVE submit_loop(_, _)
\* the loop of rdtmon_read from group i on; reading the values of a group
\* whose pgroups entry is NULL is a fault that ends the process
submit_loop(m_, i) ==
  Value({ IF i >= m.num_groups THEN [m EXCEPT !.ret = 0]
          ELSE IF m.pgroups[i] = NULL /\ GroupRecords(m, i) # <<>>
          THEN [m EXCEPT !.aborted = TRUE]
          ELSE submit_loop([m EXCEPT !.emitted = @ \o GroupRecords(m, i)],
                           i + 1)
          : m \in {m_} })

\* a variant of rdtmon_read that submits the samples it holds when the poll
\* fails
rdtmon_read_stale(m_, pollOk) ==
  Value({ LET req == PollRequest(m)
              m1  == [m EXCEPT !.calls = Append(@, Answered(req, pollOk))]
          IN  IF ~m.g_rdtmon THEN [m EXCEPT !.ret = 0 - EINVAL]
              ELSE IF ~pollOk THEN [submit_loop(m1, 0) EXCEPT !.ret = 0 - 1]
              ELSE submit_loop(m1, 0)
          : m \in {m_} })

\* rdtmon_read(); pollOk is the provider's answer to pqos_mon_poll
rdtmon_read(m_, pollOk) ==
  Value({ LET req == PollRequest(m)
              m1  == [m EXCEPT !.calls = Append(@, Answered(req, pollOk))]
          IN  IF ~m.g_rdtmon THEN [m EXCEPT !.ret = 0 - EINVAL]
              ELSE IF ~pollOk THEN [m1 EXCEPT !.ret = 0 - 1]
              ELSE submit_loop(m1, 0)
          : m \in {m_} })

RECURSIVE stop_loop(_, _)
\* the loop of rdtmon_shutdown from group i on
stop_loop(m_, i) ==
  Value({ IF i >= m.num_groups THEN m
          ELSE stop_loop([m EXCEPT !.calls = Append(@, StopRequest(m, i)),
                                   !.started = @ \ {m.pgroups[i]}],
                         i + 1)
          : m \in {m_} })

\* rdtmon_shutdown(): stop, pqos_fini, free the groups, sfree(g_rdtmon)
rdtmon_shutdown(m_) ==
  Value({ IF ~m.g_rdtmon THEN [m EXCEPT !.ret = 0 - EINVAL]
          ELSE Value({ [m1 EXCEPT !.g_rdtmon = FALSE, !.cgroups = ZeroCgroups,
                                  !.pgroups = ZeroPgroups, !.num_groups = 0,
                                  !.ret = 0]
                       : m1 \in {rdtmon_free_cgroups(
                                   pqos_fini(stop_loop(m, 0)))} })
          : m \in {m_} })

(***************************************************************************)
(* The inputs: platforms and configuration blocks.                         *)
(***************************************************************************)
\* what pqos_cap_get reports: the lcore of every core, the monitoring events
Platforms ==
  { [lcores |-> <<0, 1, 2>>,
     events |-> {PQOS_MON_EVENT_L3_OCCUP, PQOS_MON_EVENT_LMEM_BW,
                 PQOS_MON_EVENT_TMEM_BW, PQOS_MON_EVENT_RMEM_BW,
                 PQOS_PERF_EVENT_LLC_MISS, PQOS_PERF_EVENT_IPC}],
    [lcores |-> <<2, 10>>,
     events |-> {PQOS_PERF_EVENT_LLC_MISS, PQOS_PERF_EVENT_IPC}],
    [lcores |-> <<0, 1, 2, 3>>,
     events |-> {PQOS_MON_EVENT_LMEM_BW, PQOS_PERF_EVENT_LLC_MISS}] }

\* an oconfig value of type string, and one of type number
Str(s) == [type |-> "string", string |-> s]
Num == [type |-> "number", string |-> <<>>]

\* an oconfig item: a key with its values
Option(key, values) == [key |-> key, values |-> values]

\* the options a <Plugin rdtmon> block is made of
Options ==
  { Option("Cores", <<>>),
    Option("Cores", <<Str(<<>>)>>),
    Option("Cores", <<Str(<<" ">>)>>),
    Option("Cores", <<Str(<<"0">>), Str(<<"x">>)>>),
    Option("Cores", <<Str(<<"0">>), Str(<<" ">>)>>),
    Option("Cores", <<Str(<<"0", "-", "1">>), Str(<<"2">>)>>),
    Option("Cores", <<Str(<<"0">>), Str(<<>>), Str(<<"1">>), Str(<<"2">>)>>),
    Option("Cores", <<Str(<<"0", "-", "1">>), Str(<<"1", ",", "2">>)>>),
    Option("Cores", <<Str(<<"1">>), Str(<<"0">>), Str(<<"1">>)>>),
    Option("Cores", <<Str(<<"0">>), Str(<<"1">>), Str(<<"2">>), Str(<<"3">>)>>),
    Option("Cores", <<Str(<<"0", ",", "4">>)>>),
    Option("Cores", <<Num>>),
    Option("cores", <<Str(<<"1">>)>>),
    Option("Interval", <<Num>>) }

\* the blocks of at most n options
Blocks(n) == UNION {[1 .. k -> Options] : k \in 0 .. n}

(***************************************************************************)
(* The callbacks as actions.                                               *)
(***************************************************************************)
NoCall == [fn |-> "none"]
NoHist == [ci |-> <<>>, cfg |-> "none", init_ok |-> FALSE,
           cores_seen |-> FALSE, bound |-> {}]

\* the program state a callback starts on
Cur(failAt) ==
  [g_rdtmon |-> g_rdtmon, cgroups |-> cgroups, pgroups |-> pgroups,
   num_groups |-> num_groups, heap |-> heap, double_free |-> double_free,
   aborted |-> aborted, pqos_up |-> pqos_up, started |-> started,
   calls |-> <<>>, emitted |-> <<>>, warned |-> FALSE, overrun |-> FALSE,
   nalloc |-> 0, failAt |-> failAt, p |-> NULL, ret |-> 0]

\* the program state a callback leaves when it returns
Store(m) ==
  /\ g_rdtmon' = m.g_rdtmon
  /\ cgroups' = m.cgroups
  /\ pgroups' = m.pgroups
  /\ num_groups' = m.num_groups
  /\ heap' = m.heap
  /\ double_free' = m.double_free
  /\ pqos_up' = m.pqos_up
  /\ started' = m.started

\* callback op ends in state m, with history h when it returns.  A failed
\* assert or a fault ends the process: only the requests made and the
\* records dispatched up to then remain to be seen.  The same holds for a
\* write past the table, after which nothing is known of the process.
Return(m, op, nomem, h) ==
  /\ calls' = m.calls
  /\ emitted' = m.emitted
  /\ aborted' = m.aborted
  /\ IF m.aborted
     THEN /\ last' = [op |-> "abort", ret |-> 0, nomem |-> nomem,
                       warned |-> m.warned, overrun |-> m.overrun]
          /\ UNCHANGED <<g_rdtmon, cgroups, pgroups, num_groups, heap,
                         double_free, pqos_up, started, hist>>
     ELSE /\ Store(m)
          /\ last' = [op |-> op, ret |-> m.ret, nomem |-> nomem,
                       warned |-> m.warned, overrun |-> m.overrun]
          /\ hist' = h

\* the outcomes of rdtmon_preinit to explore: one when the context exists
PreChoices == IF g_rdtmon THEN {"ok"} ELSE PreOutcomes

HasCores(ci) == \E i \in 1 .. Len(ci) : IsCoresKey(ci[i].key)

\* the history after a callback that left state m: it starts anew with the
\* context
HistBase(m) == IF g_rdtmon /\ m.g_rdtmon THEN hist ELSE NoHist

\* the program before any callback has run
ProgInit ==
  /\ g_rdtmon = FALSE
  /\ cgroups = ZeroCgroups
  /\ pgroups = ZeroPgroups
  /\ num_groups = 0
  /\ heap = <<>>
  /\ double_free = FALSE
  /\ aborted = FALSE
  /\ pqos_up = FALSE
  /\ started = {}
  /\ \E pf \in Platforms : lcores = pf.lcores /\ cap_events = pf.events
  /\ calls = <<>>
  /\ emitted = <<>>
  /\ last = [op |-> "none", ret |-> 0, nomem |-> FALSE, warned |-> FALSE,
             overrun |-> FALSE]
  /\ hist = NoHist
  /\ noptions = 0

Init == ProgInit /\ call = NoCall

\* the host applies a <Plugin rdtmon> block
CallConfig ==
  \E ci \in Blocks(MaxOptions - noptions), pre \in PreChoices :
    \E m0 \in {rdtmon_config(Cur(0), ci, pre)} :
      \E failAt \in 0 .. m0.nalloc :
        \E m \in {IF failAt = 0 THEN m0
                  ELSE rdtmon_config(Cur(failAt), ci, pre)} :
          /\ ~aborted
          /\ Return(m, "config", failAt # 0,
                    IF ~m.g_rdtmon THEN NoHist
                    ELSE [HistBase(m) EXCEPT
                            !.ci = ci,
                            !.cfg = IF m.ret = 0 THEN "ok" ELSE "err",
                            !.cores_seen = @ \/ HasCores(ci)])
          /\ noptions' = noptions + Len(ci)
          /\ UNCHANGED <<lcores, cap_events, call>>

\* the host initialises the plugin
CallInit ==
  \E pre \in PreChoices, failSlot \in (0 - 1) .. (num_groups - 1) :
    \E m \in {rdtmon_init(Cur(0), pre, failSlot)} :
      /\ ~aborted
      /\ Return(m, "init", pre = "enomem",
                IF ~m.g_rdtmon THEN NoHist
                ELSE [HistBase(m) EXCEPT
                        !.init_ok = (m.ret = 0),
                        !.bound = @ \cup {m.calls[k].ctx :
                                            k \in {j \in 1 .. Len(m.calls) :
                                                     m.calls[j].ok}}])
      /\ UNCHANGED <<lcores, cap_events, noptions, call>>

\* the host runs one read cycle
CallRead ==
  \E pollOk \in BOOLEAN :
    \E m \in {rdtmon_read(Cur(0), pollOk)} :
      /\ ~aborted
      /\ Return(m, "read", FALSE, hist)
      /\ UNCHANGED <<lcores, cap_events, noptions, call>>

\* the host shuts the plugin down
CallShutdown ==
  \E m \in {rdtmon_shutdown(Cur(0))} :
    /\ ~aborted
    /\ Return(m, "shutdown", FALSE, IF m.ret = 0 THEN NoHist ELSE hist)
    /\ UNCHANGED <<lcores, cap_events, noptions, call>>

Next == CallConfig \/ CallInit \/ CallRead \/ CallShutdown

Spec == Init /\ [][Next]_vars

(***************************************************************************)
(* strlisttonums and cgroup_cmp called on their own.                       *)
(***************************************************************************)
\* the characters of the core-list expressions that are tried
ParseChars == {"0", "1", "7", ",", "-", " ", "x"}

\* ULLONG_MAX in decimal
MaxDecimal == Decimal(ULLONG_MAX)

\* longer expressions: ranges that end at ULLONG_MAX, followed by more tokens
ParseExamples ==
  { MaxDecimal \o <<"-">> \o MaxDecimal \o <<",", "1", ",", "0">>,
    MaxDecimal \o <<"-">> \o MaxDecimal \o <<",", "x">>,
    <<"0", "-", "1", ",", "x", ",", "2">>,
    <<"0", "x", "3", "-", "1", ",", " ", "2">> }

\* the expressions handed to strlisttonums
ParseInputs ==
  UNION {[1 .. n -> ParseChars] : n \in 0 .. MaxLen} \cup ParseExamples

\* strlisttonums(s, nums, max) is called
CallStrlisttonums ==
  /\ call.fn = "strlisttonums"
  /\ ~call.done
  /\ call' = [call EXCEPT !.done = TRUE,
                          !.nums = strlisttonums(call.s, call.max)]
  /\ UNCHANGED progvars

InitParse ==
  /\ ProgInit
  /\ \E s \in ParseInputs, max \in 0 .. MaxMax :
       call = [fn |-> "strlisttonums", s |-> s, max |-> max, done |-> FALSE,
               nums |-> <<>>]

SpecParse == InitParse /\ [][CallStrlisttonums]_vars

\* the core lists of the groups handed to cgroup_cmp: not empty, as
\* cgroup_set asserts num_cores > 0
CoreLists == UNION {[1 .. n -> 0 .. MaxCore] : n \in 1 .. MaxCores}

\* a group made of a core list
Group(cores) == [num_cores |-> Len(cores), cores |-> cores]

\* cgroup_cmp(a, b) and cgroup_cmp(b, a) are called
CallCgroupCmp ==
  /\ call.fn = "cgroup_cmp"
  /\ ~call.done
  /\ call' = [call EXCEPT !.done = TRUE,
                          !.ret = cgroup_cmp(Group(call.a), Group(call.b)),
                          !.rev = cgroup_cmp(Group(call.b), Group(call.a))]
  /\ UNCHANGED progvars

InitCmp ==
  /\ ProgInit
  /\ \E a \in CoreLists, b \in CoreLists :
       call = [fn |-> "cgroup_cmp", a |-> a, b |-> b, done |-> FALSE,
               ret |-> 0, rev |-> 0]

SpecCmp == InitCmp /\ [][CallCgroupCmp]_vars

(***************************************************************************)
(* What a core-list expression denotes.                                    *)
(***************************************************************************)
\* a token without its leading white space
Stripped(token) == Tail_(token, SkipSpace(token, 1))

\* the one or two numerals of a token: the parts around its first "-"
Numerals(token) ==
  LET t == Stripped(token)
      p == IndexOf(t, "-", 1)
  IN  IF p = 0 THEN <<t>> ELSE <<SubSeq(t, 1, p - 1), Tail_(t, p + 1)>>

\* a token is valid when it is skipped as empty or when each of its
\* numerals is a number
TokenValid(token) ==
  \/ Stripped(token) = <<>>
  \/ \A k \in 1 .. Len(Numerals(token)) :
       strtouint64(Numerals(token)[k]).ret = 0

\* the integers a valid token denotes, in ascending order
TokenDenotes(token) ==
  LET a  == strtouint64(Numerals(token)[1]).n
      b  == strtouint64(Numerals(token)[Len(Numerals(token))]).n
      lo == IF a < b THEN a ELSE b
      hi == IF a < b THEN b ELSE a
  IN  IF Stripped(token) = <<>> THEN <<>>
      ELSE [k \in 1 .. (hi - lo + 1) |-> lo + k - 1]

RECURSIVE Concat(_)
Concat(seqs) == IF seqs = <<>> THEN <<>> ELSE Head(seqs) \o Concat(Tail(seqs))

RECURSIVE Distinct(_)
\* a sequence without the later occurrences of its elements
Distinct(seq) ==
  IF seq = <<>> THEN <<>>
  ELSE LET d == Distinct(SubSeq(seq, 1, Len(seq) - 1))
           x == seq[Len(seq)]
       IN  IF \E k \in 1 .. Len(d) : d[k] = x THEN d ELSE Append(d, x)

\* the comma-separated tokens of an expression
ExprTokens(s) == strtok_r(s)

AllValid(s) == \A k \in 1 .. Len(ExprTokens(s)) : TokenValid(ExprTokens(s)[k])

\* the distinct values an expression of valid tokens denotes, in
\* first-occurrence order
Denoted(s) ==
  Distinct(Concat([k \in 1 .. Len(ExprTokens(s)) |->
                     TokenDenotes(ExprTokens(s)[k])]))

\* the tokens before the first token that is not valid
ValidPrefix(s) ==
  LET toks == ExprTokens(s)
      bad  == {k \in 1 .. Len(toks) : ~TokenValid(toks[k])}
      k1   == CHOOSE k \in bad : \A j \in bad : k <= j
  IN  SubSeq(toks, 1, k1 - 1)

ParseDone == call.fn = "strlisttonums" /\ call.done

(***************************************************************************)
(* C6..C8: strlisttonums.                                                  *)
(***************************************************************************)
\* C6: for an expression made only of valid tokens that denotes at most max
\* distinct values, strlisttonums returns exactly the distinct values the
\* tokens denote, in first-occurrence order, and nothing else.
C6_ReturnsDenoted ==
  (ParseDone /\ AllValid(call.s) /\ Len(Denoted(call.s)) <= call.max)
    => call.nums = Denoted(call.s)

\* C7 as stated: an expression with a token that is not valid yields 0
\* elements, wherever that token stands.
C7_InvalidAnywhereEmpty ==
  (ParseDone /\ ~AllValid(call.s)) => call.nums = <<>>

\* what strlisttonums stores from the tokens before the first invalid one
StoredBefore(s, max) ==
  IF max = 0 THEN <<>> ELSE TokenLoop(ValidPrefix(s), <<>>, max)

\* C7: an expression with a token that is not valid yields 0 elements,
\* unless the tokens before the first such token already filled the max
\* slots: then the parse stopped there and those max values are returned.
C7_InvalidEmptyUnlessFull ==
  (ParseDone /\ ~AllValid(call.s))
    => call.nums = IF /\ call.max > 0
                      /\ Len(StoredBefore(call.s, call.max)) >= call.max
                   THEN StoredBefore(call.s, call.max)
                   ELSE <<>>

\* C7's case: valid tokens that store values without filling the slots,
\* then an invalid token, and 0 elements returned
C7_Witness ==
  /\ ParseDone
  /\ ~AllValid(call.s)
  /\ StoredBefore(call.s, call.max) # <<>>
  /\ Len(StoredBefore(call.s, call.max)) < call.max
  /\ call.nums = <<>>

\* C8: strlisttonums never returns more than max elements, and for an
\* expression of valid tokens that denotes more than max distinct values it
\* returns exactly the first max of them.
C8_FirstMaxDistinct ==
  ParseDone
    => /\ Len(call.nums) <= call.max
       /\ (AllValid(call.s) /\ Len(Denoted(call.s)) > call.max)
            => call.nums = SubSeq(Denoted(call.s), 1, call.max)

(***************************************************************************)
(* C10: cgroup_cmp.                                                        *)
(***************************************************************************)
CoreSet(cores) == {cores[k] : k \in 1 .. Len(cores)}

DupFree(cores) == Cardinality(CoreSet(cores)) = Len(cores)

CmpDone == call.fn = "cgroup_cmp" /\ call.done

\* C10: on two duplicate-free core lists cgroup_cmp returns 0 exactly when
\* the core sets are disjoint, 1 exactly when they are the same set, -1
\* exactly when they share some but not all cores, and the same value with
\* the two arguments exchanged.
C10_TriState ==
  (CmpDone /\ DupFree(call.a) /\ DupFree(call.b))
    => LET A == CoreSet(call.a)
           B == CoreSet(call.b)
       IN  /\ (call.ret = 0) <=> (A \cap B = {})
           /\ (call.ret = 1) <=> (A = B)
           /\ (call.ret = 0 - 1) <=> (A \cap B # {} /\ A # B)
           /\ call.rev = call.ret

\* C10's case: a group compared with a proper subset of it, of two cores
C10_Witness ==
  /\ CmpDone
  /\ DupFree(call.a) /\ DupFree(call.b)
  /\ Len(call.a) = 3 /\ Len(call.b) = 2
  /\ CoreSet(call.b) \subseteq CoreSet(call.a)
  /\ call.ret = 0 - 1

(***************************************************************************)
(* The table and the configuration, as the properties speak of them.       *)
(***************************************************************************)
\* the indices below num_groups
Live == 0 .. (num_groups - 1)

\* the core identifiers stored in slot i
StoredCores(i) ==
  IF cgroups[i].cores = NULL THEN {}
  ELSE {heap[cgroups[i].cores].val[k] : k \in 1 .. cgroups[i].num_cores}

\* the contexts of the live groups
LiveContexts == {pgroups[i] : i \in Live}

\* no slot holds a description, a core array or a context
TableFreed ==
  \A i \in Slots : /\ cgroups[i].desc = NULL
                   /\ cgroups[i].cores = NULL
                   /\ pgroups[i] = NULL

\* the live prefix is one singleton group per core of the platform, group i
\* described by the decimal lcore of core i
DefaultTable ==
  /\ num_groups = Len(lcores)
  /\ \A i \in 0 .. (Len(lcores) - 1) :
       /\ cgroups[i].desc # NULL
       /\ heap[cgroups[i].desc].val = Decimal(lcores[i + 1])
       /\ cgroups[i].cores # NULL
       /\ cgroups[i].num_cores = 1

\* the Cores options of a block, in order
CoresOptions(ci) == SelectSeq(ci, LAMBDA o : IsCoresKey(o.key))

\* the block has exactly one Cores option
SoleCores(ci) == Len(CoresOptions(ci)) = 1

AllStrings(opt) ==
  \A j \in 1 .. Len(opt.values) : opt.values[j].type = "string"

\* the option yields no group: it has no value or only empty strings
NoGroupOption(opt) ==
  AllStrings(opt) /\ \A j \in 1 .. Len(opt.values) : opt.values[j].string = <<>>

\* a value that is not empty and holds white space only
BlankValue(v) ==
  /\ v.type = "string"
  /\ v.string # <<>>
  /\ \A k \in 1 .. Len(v.string) : isspace(v.string[k])

\* the core identifiers a value's group stores: the parsed values as unsigned
ValueCores(v) ==
  LET nums == strlisttonums(sstrncpy(v.string, DATA_MAX_NAME_LEN),
                            RDTMON_MAX_CORES)
  IN  {nums[k] % UIntMod : k \in 1 .. Len(nums)}

\* the values of an option that describe a group: the first RDTMON_MAX_CORES
\* values that are not empty
GroupValues(opt) ==
  LET vs == SelectSeq(opt.values, LAMBDA v : v.string # <<>>)
  IN  IF Len(vs) > RDTMON_MAX_CORES THEN SubSeq(vs, 1, RDTMON_MAX_CORES) ELSE vs

\* the option describes groups, two of which share a core (Identical or
\* PartialOverlap)
OverlapOption(opt) ==
  /\ AllStrings(opt)
  /\ \A k \in 1 .. Len(GroupValues(opt)) : ValueCores(GroupValues(opt)[k]) # {}
  /\ \E i, j \in 1 .. Len(GroupValues(opt)) :
       /\ i < j
       /\ ValueCores(GroupValues(opt)[i]) \cap ValueCores(GroupValues(opt)[j]) # {}

\* the option reaches a blank value: every value before it is empty or
\* parses, and the table is not yet full
ReachesBlank(opt) ==
  /\ AllStrings(opt)
  /\ \E j \in 1 .. Len(opt.values) :
       /\ BlankValue(opt.values[j])
       /\ \A k \in 1 .. (j - 1) :
            opt.values[k].string = <<>> \/ ValueCores(opt.values[k]) # {}
       /\ Cardinality({k \in 1 .. (j - 1) : opt.values[k].string # <<>>})
            < RDTMON_MAX_CORES

\* the last callback applied a block with one Cores option, and no
\* allocation failed
SoleCoresApplied ==
  /\ last.op = "config"
  /\ ~last.nomem
  /\ SoleCores(hist.ci)

(***************************************************************************)
(* C1..C5 and C9: the callbacks.                                           *)
(***************************************************************************)
\* C1: in every reachable state no two groups at indices below num_groups
\* share a core identifier.
C1_LiveGroupsDisjoint ==
  \A i, j \in Live : i < j => StoredCores(i) \cap StoredCores(j) = {}

\* C1's case: an accepted configuration of several groups, one of them
\* with more than one core
C1_Witness ==
  /\ last.op = "config" /\ last.ret = 0
  /\ num_groups >= 2
  /\ \A i \in Live : StoredCores(i) # {}
  /\ \E i \in Live : Cardinality(StoredCores(i)) >= 2

\* C2: when the Cores option applied last holds two groups that share a
\* core, configuration-apply has returned an error, the live group count is
\* 0, and no later init or read starts or polls a group.
C2_OverlapLeavesNoGroup ==
  (SoleCores(hist.ci) /\ OverlapOption(CoresOptions(hist.ci)[1]))
    => /\ hist.cfg = "err"
       /\ num_groups = 0
       /\ \A k \in 1 .. Len(calls) :
            /\ calls[k].op # "start"
            /\ calls[k].op = "poll" => calls[k].num_groups = 0

\* C3: after shutdown every block that configuration-apply allocated has
\* been released exactly once: none is left and none was freed twice.
C3_ReleasedOnceAfterShutdown ==
  (last.op = "shutdown" /\ last.ret = 0)
    => (DOMAIN heap = {} /\ ~double_free)

\* C4: once a configuration was applied and init succeeded, in either
\* order, the contexts bound with the provider when a poll runs are those
\* of the live groups.
C4_SameBindingEitherOrder ==
  (last.op = "read" /\ hist.cfg = "ok" /\ hist.init_ok)
    => started = LiveContexts

\* C5 as stated: when no Cores option was supplied at all, after
\* configuration and initialization the table holds the default groups.
C5_DefaultsWithoutCores ==
  (g_rdtmon /\ hist.cfg = "ok" /\ ~hist.cores_seen /\ hist.init_ok)
    => DefaultTable

\* C5: when no Cores option was supplied at all the table holds no group,
\* before and after initialization; when the Cores option applied last
\* yields no group (no value, or empty strings only), the table holds one
\* singleton group per core of the platform, group i described by the
\* decimal lcore of core i.
C5_DefaultsForEmptyCores ==
  /\ (g_rdtmon /\ ~hist.cores_seen)
       => (num_groups = 0 /\ TableFreed)
  /\ (/\ hist.cfg = "ok"
      /\ CoresOptions(hist.ci) # <<>>
      /\ NoGroupOption(CoresOptions(hist.ci)[Len(CoresOptions(hist.ci))]))
       => DefaultTable

\* C5's case: an empty Cores option applied, then a successful init, on a
\* platform whose lcores differ from the core indices
C5_Witness ==
  /\ hist.cfg = "ok" /\ hist.init_ok
  /\ last.op = "init"
  /\ CoresOptions(hist.ci) # <<>>
  /\ NoGroupOption(CoresOptions(hist.ci)[Len(CoresOptions(hist.ci))])
  /\ lcores = <<2, 10>>
  /\ DefaultTable

\* C9 as stated: a Cores option whose values are all empty or blank is
\* applied without error and the default groups are created.
C9_BlankMeansNoGroups ==
  (/\ SoleCoresApplied
   /\ AllStrings(CoresOptions(hist.ci)[1])
   /\ CoresOptions(hist.ci)[1].values # <<>>
   /\ \A j \in 1 .. Len(CoresOptions(hist.ci)[1].values) :
        \/ CoresOptions(hist.ci)[1].values[j].string = <<>>
        \/ BlankValue(CoresOptions(hist.ci)[1].values[j]))
    => (last.ret = 0 /\ DefaultTable)

\* C9: a Cores value that is the empty string produces no group and no
\* error, and the default groups are created when no value produces a
\* group; a value of white space only makes configuration-apply return
\* -EINVAL with every group of the table released.
C9_EmptySkippedBlankRejected ==
  /\ (/\ SoleCoresApplied
      /\ CoresOptions(hist.ci)[1].values # <<>>
      /\ NoGroupOption(CoresOptions(hist.ci)[1]))
       => (last.ret = 0 /\ DefaultTable)
  /\ (SoleCoresApplied /\ ReachesBlank(CoresOptions(hist.ci)[1]))
       => (last.ret = 0 - EINVAL /\ TableFreed)

\* C9's case: a blank value that follows a value which built a group
C9_Witness ==
  /\ SoleCoresApplied
  /\ ReachesBlank(CoresOptions(hist.ci)[1])
  /\ Len(CoresOptions(hist.ci)[1].values) = 2
  /\ BlankValue(CoresOptions(hist.ci)[1].values[2])
  /\ ValueCores(CoresOptions(hist.ci)[1].values[1]) # {}
  /\ last.ret = 0 - EINVAL
  /\ TableFreed

(***************************************************************************)
(* C11, C12: rdtmon_read.                                                  *)
(***************************************************************************)
\* the last callback was a read that found the context and polled
ReadPolled ==
  /\ last.op = "read"
  /\ last.ret # 0 - EINVAL

\* the provider requests of kind op among the requests of the last callback
Requests(op) == SelectSeq(calls, LAMBDA r : r.op = op)

\* C11: when the bulk poll call fails, that read cycle emits no metric
\* record and returns failure; a read cycle issues exactly one poll, so the
\* read cycle after a failed one polls anew and nothing retries in between.
C11_FailedPollEmitsNothing ==
  /\ ReadPolled => Len(calls) = 1 /\ calls[1].op = "poll"
  /\ (ReadPolled /\ ~calls[1].ok) => (emitted = <<>> /\ last.ret < 0)
  /\ (ReadPolled /\ calls[1].ok) => last.ret = 0

\* C11's case: the poll of a table of groups with contexts and events has
\* failed
C11_Witness ==
  /\ ReadPolled
  /\ ~calls[1].ok
  /\ num_groups >= 2
  /\ \A i \in Live : pgroups[i] # NULL /\ cgroups[i].events # {}
  /\ emitted = <<>>
  /\ last.ret = 0 - 1

\* the description of group i
Description(i) ==
  IF cgroups[i].desc = NULL THEN <<>> ELSE heap[cgroups[i].desc].val

\* the record of a type for group i: its instance tag is the description in
\* brackets, mbm carries six values and the others one
Record(type, i) ==
  [type |-> type, instance |-> <<"[">> \o Description(i) \o <<"]">>,
   slot |-> i, nvalues |-> IF type = "mbm" THEN 6 ELSE 1]

\* whether the event mask of group i asks for a record of the type
Gated(type, i) ==
  CASE type = "llc" -> PQOS_MON_EVENT_L3_OCCUP \in cgroups[i].events
    [] type = "ipc" -> PQOS_PERF_EVENT_IPC \in cgroups[i].events
    [] type = "mbm" -> \E e \in {PQOS_MON_EVENT_LMEM_BW,
                                  PQOS_MON_EVENT_RMEM_BW,
                                  PQOS_MON_EVENT_TMEM_BW} :
                         e \in cgroups[i].events

\* the records one cycle owes for group i
OwedRecords(i) ==
  [k \in 1 .. 3 |-> Record(<<"llc", "ipc", "mbm">>[k], i)]

\* the records one cycle emits for the live groups, in table order
CycleRecords ==
  Concat([g \in 1 .. num_groups |->
            SelectSeq(OwedRecords(g - 1), LAMBDA r : Gated(r.type, r.slot))])

\* C12: a read cycle whose poll succeeded emits, for each live group in
\* table order, an llc record iff the occupancy bit is in the group's
\* event mask, an ipc record iff the IPC bit is, and one six-value mbm
\* record iff one of the three bandwidth bits is, in that order, at most one
\* of each, each tagged with the group's description in brackets.
C12_GatedRecordsInOrder ==
  (ReadPolled /\ last.ret = 0) => emitted = CycleRecords

\* C12's case: a cycle over several explicit groups on a platform with
\* bandwidth events, and one on a platform without them
C12_Witness ==
  /\ ReadPolled /\ last.ret = 0
  /\ num_groups >= 2
  /\ emitted # <<>>
  /\ \E k \in 1 .. Len(emitted) : emitted[k].type = "mbm"
  /\ Len(Description(0)) >= 3

(***************************************************************************)
(* C13, C14: rdtmon_config_cgroups.                                        *)
(***************************************************************************)
\* the last callback applied a block with a Cores option and every
\* rdtmon_config_cgroups of it returned 0
CoresApplied ==
  /\ last.op = "config"
  /\ last.ret = 0
  /\ HasCores(hist.ci)

NonEmptyValues(opt) == SelectSeq(opt.values, LAMBDA v : v.string # <<>>)

\* the option lists more groups than the table holds, all of them
\* well-formed and no two of them sharing a core
OverfullOption(opt) ==
  /\ AllStrings(opt)
  /\ Len(NonEmptyValues(opt)) > RDTMON_MAX_CORES
  /\ \A k \in 1 .. Len(NonEmptyValues(opt)) :
       ValueCores(NonEmptyValues(opt)[k]) # {}
  /\ \A i, j \in 1 .. Len(NonEmptyValues(opt)) :
       i < j => ValueCores(NonEmptyValues(opt)[i])
                  \cap ValueCores(NonEmptyValues(opt)[j]) = {}

\* C14: when the one Cores option applied lists more well-formed, pairwise
\* disjoint groups than RDTMON_MAX_CORES, configuration-apply returns
\* success with the warning logged, and the table holds exactly the first
\* RDTMON_MAX_CORES groups in configuration order.
C14_OverfullKeepsFirst ==
  (SoleCoresApplied /\ OverfullOption(CoresOptions(hist.ci)[1]))
    => /\ last.ret = 0
       /\ last.warned
       /\ num_groups = RDTMON_MAX_CORES
       /\ \A i \in Slots :
            /\ Description(i) = NonEmptyValues(CoresOptions(hist.ci)[1])[i + 1].string
            /\ StoredCores(i)
                 = ValueCores(NonEmptyValues(CoresOptions(hist.ci)[1])[i + 1])

\* C14's case: one group more than the table holds was configured
C14_Witness ==
  /\ SoleCoresApplied
  /\ OverfullOption(CoresOptions(hist.ci)[1])
  /\ Len(NonEmptyValues(CoresOptions(hist.ci)[1])) = RDTMON_MAX_CORES + 1
  /\ last.ret = 0
  /\ num_groups = RDTMON_MAX_CORES

(***************************************************************************)
(* C15: rdtmon_init.                                                       *)
(***************************************************************************)
\* the start requests of an init: group k - 1 is the k-th one asked for,
\* and only the last request can have failed
StartsInOrder ==
  /\ Len(calls) <= num_groups
  /\ \A k \in 1 .. Len(calls) :
       /\ calls[k].op = "start"
       /\ calls[k].slot = k - 1
       /\ calls[k].ctx = pgroups[k - 1]
       /\ k < Len(calls) => calls[k].ok
       /\ calls[k].ok => calls[k].ctx \in started

\* C15: init requests the start of the live groups in table order; when the
\* start of group i fails it returns an error at once, so no group after i
\* is asked for in that call, and it returns 0 only when every live group
\* was started; the contexts whose start succeeded stay started as long as
\* no shutdown has run.
C15_StartStopsAtFirstFailure ==
  /\ last.op = "init"
       => /\ StartsInOrder
          /\ (calls # <<>> /\ ~calls[Len(calls)].ok) => last.ret < 0
          /\ (g_rdtmon /\ last.ret = 0)
               => /\ Len(calls) = num_groups
                  /\ \A k \in 1 .. Len(calls) : calls[k].ok
  /\ hist.bound \subseteq started

\* C15's case: the start of the second of three groups has failed
C15_Witness ==
  /\ last.op = "init"
  /\ num_groups = 3
  /\ Len(calls) = 2
  /\ calls[1].ok /\ ~calls[2].ok
  /\ calls[2].ctx # NULL
  /\ last.ret = 0 - 1
  /\ started = {pgroups[0]}
  /\ hist.bound = started

(***************************************************************************)
(* C16: allocation failures in rdtmon_config.                              *)
(***************************************************************************)
\* the last callback was a configuration-apply in which an allocation of a
\* description, a core array or a context failed; only rdtmon_config
\* allocates those and can end the process after such a failure
ConfigAllocationFailed ==
  /\ last.nomem
  /\ last.op \in {"config", "abort"}

\* C16: when an allocation fails during configuration-apply, the call
\* returns an error value and does not end the process, no slot of the table
\* holds a description, a core array or a context any more, and no block
\* was freed twice.
C16_AllocationFailureReturnsError ==
  ConfigAllocationFailed
    => /\ ~aborted
       /\ last.op = "config"
       /\ last.ret < 0
       /\ TableFreed
       /\ ~double_free

(***************************************************************************)
(* C17, C18: the cores a group stores.                                     *)
(***************************************************************************)
\* configuration-apply has built the default groups: the Cores option
\* applied last yields no group and the block was applied without error
DefaultsBuilt ==
  /\ hist.cfg = "ok"
  /\ CoresOptions(hist.ci) # <<>>
  /\ NoGroupOption(CoresOptions(hist.ci)[Len(CoresOptions(hist.ci))])

\* C17: default group i monitors exactly the core the topology reports at
\* index i: the one core identifier it stores is the lcore that its
\* description renders in decimal.
C17_DefaultGroupStoresLcore ==
  DefaultsBuilt
    => \A i \in Live :
         /\ Description(i) = Decimal(lcores[i + 1])
         /\ StoredCores(i) = {lcores[i + 1] % UIntMod}

\* the core array of slot i, as stored
CoreArray(i) ==
  IF cgroups[i].cores = NULL THEN <<>> ELSE heap[cgroups[i].cores].val

\* C18: the core identifiers of every group stored in the table are pairwise
\* distinct, also when the core list holds values beyond the width of the
\* stored type.
C18_StoredCoresDistinct ==
  \A i \in Slots : DupFree(CoreArray(i))

(***************************************************************************)
(* C19: the capacity of the table.                                         *)
(***************************************************************************)
\* C19: in every reachable state num_groups is at most RDTMON_MAX_CORES and
\* no callback has written a slot at an index at or beyond the capacity,
\* also when the default groups are built on a platform that reports more
\* cores than the table holds.
C19_WithinCapacity ==
  /\ num_groups <= RDTMON_MAX_CORES
  /\ ~last.overrun

(***************************************************************************)
(* C20: the contexts handed to pqos_mon_poll and pqos_mon_stop.            *)
(***************************************************************************)
\* the context is an allocated block that was started and not stopped since
Running(state) == state.allocated /\ state.bound

\* C20: whatever the sequence of config, init, read and shutdown calls, the
\* provider is asked to stop or to poll a context only when that context is
\* allocated, was started successfully and has not been stopped since.
C20_OnlyRunningContextsUsed ==
  \A k \in 1 .. Len(calls) :
    /\ calls[k].op = "stop" => Running(calls[k].state)
    /\ calls[k].op = "poll"
         => \A j \in 1 .. Len(calls[k].states) : Running(calls[k].states[j])

==========================================================================
